---------------------------- MODULE Spec2Model ----------------------------
(***************************************************************************)
(* A model of merge-change (src/merge-change.js): the type-pair dispatcher *)
(* (prepareMerge), the built-in merge handlers, the declarative operation  *)
(* executor and the registration API (addMerge / addOperation).            *)
(*                                                                         *)
(* JavaScript values live in a heap of containers so that reference        *)
(* equality (===), in-place mutation and aliasing are observable.          *)
(***************************************************************************)
EXTENDS Integers, Sequences, FiniteSets, TLC

VARIABLES
    heap,        \* the containers allocated so far: address -> container
    kind,        \* the entry point being folded: "merge" | "patch" | "update" | "none"
                 \* (for a direct call of an operation, the operation's name)
    args,        \* the values passed so far to the variadic call, in order
    argTrees,    \* the structure each argument had when it was passed
    argCells,    \* the containers each argument reached when it was passed
    result,      \* the accumulator of values.reduce: what the call returns
    err,         \* the message of the Error thrown by the call, "" when none
    handlers,    \* the merge handler registry: <<type1, type2>> -> callback
    operations,  \* the operation registry: name -> callback
    log          \* the addMerge / addOperation calls made so far

vars == <<heap, kind, args, argTrees, argCells, result, err, handlers, operations, log>>

-----------------------------------------------------------------------------
(* Bounds of the model.                                                    *)

\* Numbers used as scalar leaves are 1..MaxNum.
MaxNum == 2
\* The variadic entry points are folded over at most MaxArgs values.
MaxArgs == 2
\* At most MaxCalls registration calls are made in a row.
MaxCalls == 2

-----------------------------------------------------------------------------
(* Values.  A value is a scalar or a reference to a heap container.        *)

Undefined == [t |-> "Undefined", v |-> 0, s |-> ""]
Num(n)    == [t |-> "Number", v |-> n, s |-> ""]
Str(x)    == [t |-> "String", v |-> 0, s |-> x]
Ref(a)    == [t |-> "ref", v |-> a, s |-> ""]
IsRef(x)  == x.t = "ref"

\* A container: a plain object (keys in insertion order, with their values),
\* an array (vals only) or a Date (vals holds its time value).
Cell(k, ks, vs) == [kind |-> k, keys |-> ks, vals |-> vs]

\* u.type(value): the constructor name of a value.
type(h, x) == IF IsRef(x) THEN h[x.v].kind ELSE x.t

\* typeof value === 'object' (null is not part of the model's values).
IsObjectLike(x) == IsRef(x)
\* Array.isArray(value)
IsArray(h, x) == IsRef(x) /\ h[x.v].kind = "Array"

Range(seq) == {seq[i] : i \in 1..Len(seq)}

RECURSIVE Without(_, _)
\* seq with every occurrence of k removed, order kept.
Without(seq, k) ==
    IF seq = <<>> THEN <<>>
    ELSE IF Head(seq) = k THEN Without(Tail(seq), k)
    ELSE <<Head(seq)>> \o Without(Tail(seq), k)

RemoveAt(seq, i) == [j \in 1..(Len(seq) - 1) |-> IF j < i THEN seq[j] ELSE seq[j + 1]]

\* Object.prototype.hasOwnProperty
HasOwn(c, k) == \E i \in 1..Len(c.keys) : c.keys[i] = k
IndexOf(c, k) == CHOOSE i \in 1..Len(c.keys) : c.keys[i] = k

\* value[key]: undefined for a missing key and for a scalar.
GetProp(h, x, k) ==
    IF IsRef(x) /\ h[x.v].kind = "Object" /\ HasOwn(h[x.v], k)
    THEN h[x.v].vals[IndexOf(h[x.v], k)]
    ELSE Undefined

\* key in value, for keys that are not names of Object.prototype.
HasProp(h, x, k) == IsRef(x) /\ h[x.v].kind = "Object" /\ HasOwn(h[x.v], k)

\* Object.keys(value)
ObjectKeys(h, x) == IF IsRef(x) /\ h[x.v].kind = "Object" THEN h[x.v].keys ELSE <<>>

\* object[key] = value: an existing key keeps its place, a new one goes last.
SetProp(h, a, k, val) ==
    LET c == h[a] IN
    IF HasOwn(c, k)
    THEN [h EXCEPT ![a].vals[IndexOf(c, k)] = val]
    ELSE [h EXCEPT ![a].keys = Append(c.keys, k), ![a].vals = Append(c.vals, val)]

\* delete object[key]
DelProp(h, a, k) ==
    LET c == h[a] IN
    IF HasOwn(c, k)
    THEN [h EXCEPT ![a].keys = RemoveAt(c.keys, IndexOf(c, k)),
                   ![a].vals = RemoveAt(c.vals, IndexOf(c, k))]
    ELSE h

\* A new container: the heap with it, and the reference to it.
New(h, c) == [h |-> Append(h, c), v |-> Ref(Len(h) + 1)]

-----------------------------------------------------------------------------
(* Trees: the structure of a value, without identity.  A call's inputs are *)
(* drawn as trees and allocated; Plain reads a value back as a tree.       *)

TUndef        == [t |-> "Undefined", v |-> 0, s |-> "", keys |-> <<>>, kids |-> <<>>]
TNum(n)       == [t |-> "Number", v |-> n, s |-> "", keys |-> <<>>, kids |-> <<>>]
TStr(x)       == [t |-> "String", v |-> 0, s |-> x, keys |-> <<>>, kids |-> <<>>]
TObj(ks, vs)  == [t |-> "Object", v |-> 0, s |-> "", keys |-> ks, kids |-> vs]
TArr(vs)      == [t |-> "Array", v |-> 0, s |-> "", keys |-> <<>>, kids |-> vs]
TDate(n)      == [t |-> "Date", v |-> n, s |-> "", keys |-> <<>>, kids |-> <<>>]

IsContainerTree(tr) == tr.t \in {"Object", "Array", "Date"}

RECURSIVE Alloc(_, _)
RECURSIVE AllocKids(_, _, _)
\* The kids allocated left to right: the heap and their values.
AllocKids(h, kids, acc) ==
    IF kids = <<>> THEN [h |-> h, vs |-> acc]
    ELSE LET r == Alloc(h, Head(kids))
         IN AllocKids(r.h, Tail(kids), Append(acc, r.v))

\* tree built in the heap: a literal of the caller's program.
Alloc(h, tr) ==
    IF tr.t = "Date" THEN New(h, Cell("Date", <<>>, <<Num(tr.v)>>))
    ELSE IF ~IsContainerTree(tr) THEN [h |-> h, v |-> [t |-> tr.t, v |-> tr.v, s |-> tr.s]]
    ELSE LET r == AllocKids(h, tr.kids, <<>>)
         IN New(r.h, Cell(tr.t, tr.keys, r.vs))

RECURSIVE Plain(_, _)
\* The structure of value x in heap h (heaps of the model are acyclic).
Plain(h, x) ==
    IF ~IsRef(x) THEN [t |-> x.t, v |-> x.v, s |-> x.s, keys |-> <<>>, kids |-> <<>>]
    ELSE LET c == h[x.v] IN
         IF c.kind = "Date" THEN TDate(c.vals[1].v)
         ELSE [t |-> c.kind, v |-> 0, s |-> "", keys |-> c.keys,
               kids |-> [i \in 1..Len(c.vals) |-> Plain(h, c.vals[i])]]

RECURSIVE Reach(_, _)
\* The addresses of the containers reachable from value x.
Reach(h, x) ==
    IF ~IsRef(x) THEN {}
    ELSE {x.v} \cup
         (IF h[x.v].kind = "Date" THEN {}
          ELSE UNION {Reach(h, h[x.v].vals[i]) : i \in 1..Len(h[x.v].vals)})

-----------------------------------------------------------------------------
(* What a step of the program yields: the heap it leaves, its value, and   *)
(* the message of the Error it threw ("" when it returned).                *)

Returned(h, x) == [h |-> h, v |-> x, e |-> ""]
Thrown(h, msg) == [h |-> h, v |-> Undefined, e |-> msg]

-----------------------------------------------------------------------------
(* The path helpers of utilities.js: u.get, u.set, u.unset.  Paths of the  *)
(* model name object keys only (never array indices), and no container of  *)
(* the model has a toOperation or toJSON method.                           *)

\* path.split('.') for the paths of the model.
PathSplit(p) ==
    CASE p = "a.x" -> <<"a", "x">>
      [] p = "a.y" -> <<"a", "y">>
      [] p = "a.*" -> <<"a", "*">>
      [] p = "a.0" -> <<"a", "0">>
      [] p = "a.u" -> <<"a", "u">>
      [] p = "a.x.z" -> <<"a", "x", "z">>
      [] OTHER     -> <<p>>

\* The path a sequence of keys makes, for the keys of the model (none holds
\* the separator).
PathJoin(segs) ==
    CASE segs = <<"a", "x">> -> "a.x"
      [] segs = <<"a", "y">> -> "a.y"
      [] segs = <<"a", "u">> -> "a.u"
      [] segs = <<"a", "x", "z">> -> "a.x.z"
      [] OTHER -> segs[1]

RECURSIVE toFlat(_, _, _)
RECURSIVE toFlatKeys(_, _, _, _)
\* The entries toFlat adds for the keys of object x under a prefix.
toFlatKeys(h, x, prefix, keys) ==
    IF keys = <<>> THEN <<>>
    ELSE toFlat(h, GetProp(h, x, Head(keys)), Append(prefix, Head(keys)))
         \o toFlatKeys(h, x, prefix, Tail(keys))

\* u.toFlat(value, path, separator): the entries of the flat object, a
\* plain object giving the entries of its properties and every other value
\* one entry under its path.
toFlat(h, x, prefix) ==
    IF type(h, x) = "Object" THEN toFlatKeys(h, x, prefix, ObjectKeys(h, x))
    ELSE << <<PathJoin(prefix), x>> >>

RECURSIVE get(_, _, _, _)
\* u.get(obj, path, defaultValue)
get(h, obj, segs, defaultValue) ==
    IF obj = Undefined THEN defaultValue
    ELSE IF segs = <<>> THEN obj
    ELSE get(h, GetProp(h, obj, Head(segs)), Tail(segs), defaultValue)

RECURSIVE set(_, _, _, _)
\* u.set(obj, path, value): writes in place, creating the missing objects
\* on the way; the heap it leaves.
set(h, obj, segs, value) ==
    IF ~IsRef(obj) \/ segs = <<>> THEN h
    ELSE IF h[obj.v].kind # "Object" THEN h
    ELSE IF Len(segs) = 1 THEN SetProp(h, obj.v, Head(segs), value)
    ELSE LET cur == GetProp(h, obj, Head(segs)) IN
         IF cur = Undefined
         THEN LET r == New(h, Cell("Object", <<>>, <<>>))
              IN set(SetProp(r.h, obj.v, Head(segs), r.v), r.v, Tail(segs), value)
         ELSE set(h, cur, Tail(segs), value)

RECURSIVE unset(_, _, _)
\* u.unset(obj, path): deletes in place; '*' as the last segment deletes
\* every child.
unset(h, obj, segs) ==
    IF ~IsRef(obj) \/ segs = <<>> THEN h
    ELSE IF Len(segs) = 1
    THEN IF Head(segs) = "*"
         THEN IF h[obj.v].kind \in {"Object", "Array"}
              THEN [h EXCEPT ![obj.v].keys = <<>>, ![obj.v].vals = <<>>]
              ELSE h
         ELSE IF h[obj.v].kind = "Object" THEN DelProp(h, obj.v, Head(segs))
         ELSE h
    ELSE IF type(h, GetProp(h, obj, Head(segs))) \in {"Array", "Object"}
    THEN unset(h, GetProp(h, obj, Head(segs)), Tail(segs))
    ELSE h

-----------------------------------------------------------------------------
(* The built-in declarative operations.  Each yields the heap it leaves    *)
(* and, as its value, the boolean it returns.                              *)

RECURSIVE setEach(_, _, _, _)
\* for (const path of paths) u.set(source, path, values[path])
setEach(h, source, values, paths) ==
    IF paths = <<>> THEN h
    ELSE setEach(set(h, source, PathSplit(Head(paths)), GetProp(h, values, Head(paths))),
                 source, values, Tail(paths))

\* The value `paths.length > 0` every built-in operation returns.
OperationChanged(paths) == Len(paths) > 0

operation_set(h, source, params) ==
    IF ~IsObjectLike(source)
    THEN Thrown(h, "Invalid $set. Requires an object source.")
    ELSE IF ~IsObjectLike(params) \/ IsArray(h, params)
    THEN Thrown(h, "Invalid $set params. Expecting non-array object.")
    ELSE LET paths == ObjectKeys(h, params)
         IN [h |-> setEach(h, source, params, paths), v |-> OperationChanged(paths), e |-> ""]

RECURSIVE unsetEach(_, _, _)
\* for (const path of paths) u.unset(source, path)
unsetEach(h, source, paths) ==
    IF paths = <<>> THEN h
    ELSE unsetEach(IF Head(paths).t = "String"
                   THEN unset(h, source, PathSplit(Head(paths).s))
                   ELSE h,
                   source, Tail(paths))

operation_unset(h, source, params) ==
    IF ~IsObjectLike(source)
    THEN Thrown(h, "Invalid $unset. Requires an object source.")
    ELSE IF ~IsArray(h, params)
    THEN Thrown(h, "Invalid $unset params. Expecting array.")
    ELSE LET paths == h[params.v].vals
         IN [h |-> unsetEach(h, source, paths), v |-> OperationChanged(paths), e |-> ""]

\* A push that spreads an array value into its elements.
ArrayPush_Spread(h, a, value) ==
    IF IsArray(h, value) THEN [h EXCEPT ![a].vals = h[a].vals \o h[value.v].vals]
    ELSE [h EXCEPT ![a].vals = Append(h[a].vals, value)]

\* array.push(value): the array at address a, one element longer, in place.
ArrayPush(h, a, value) == [h EXCEPT ![a].vals = Append(h[a].vals, value)]

\* array.push(...values)
ArrayPushAll(h, a, values) == [h EXCEPT ![a].vals = h[a].vals \o values]

RECURSIVE pushEach(_, _, _, _)
\* The loop of operation$push over the paths of its params.
pushEach(h, source, values, paths) ==
    IF paths = <<>> THEN Returned(h, Undefined)
    ELSE LET path  == Head(paths)
             value == GetProp(h, values, path)
             dflt  == New(h, Cell("Array", <<>>, <<>>))
             array == get(dflt.h, source, PathSplit(path), dflt.v)
         IN IF ~IsArray(dflt.h, array)
            THEN Thrown(dflt.h, "Cannot push onto non-array value.")
            ELSE pushEach(set(ArrayPush(dflt.h, array.v, value), source, PathSplit(path), array),
                          source, values, Tail(paths))

operation_push(h, source, params) ==
    IF ~IsObjectLike(source)
    THEN Thrown(h, "Invalid $push. Requires an object source.")
    ELSE IF ~IsObjectLike(params) \/ IsArray(h, params)
    THEN Thrown(h, "Invalid $push params. Expecting non-array object.")
    ELSE LET paths == ObjectKeys(h, params)
             r     == pushEach(h, source, params, paths)
         IN IF r.e # "" THEN r
            ELSE [h |-> r.h, v |-> OperationChanged(paths), e |-> ""]

\* The names Object.prototype gives every object literal, of those the
\* model's keys use: `name in {}` is true for them, and {}[name] is a
\* function whose length is 0.
ObjectPrototypeNames == {"toString", "valueOf"}

\* String(path) of a path that is used as a property name.
PropertyName(path) == IF path.t = "String" THEN path.s ELSE ToString(path.v)

RECURSIVE LeadingPaths(_, _)
\* The leadingPaths object operation$leave builds from its paths: its own
\* keys in order, the sub-paths pushed under each, and whether a sub-path
\* was pushed onto an inherited member (a TypeError).
LeadingPaths(paths, acc) ==
    IF paths = <<>> \/ acc.e # "" THEN acc
    ELSE LET path    == Head(paths)
             segs    == IF path.t = "String" THEN PathSplit(path.s) ELSE <<PropertyName(path)>>
             leading == segs[1]
             subPath == IF Len(segs) >= 2 THEN segs[2] ELSE ""
             known   == leading \in Range(acc.keys) \cup ObjectPrototypeNames
             keys    == IF known THEN acc.keys ELSE Append(acc.keys, leading)
             subs    == IF known THEN acc.subs ELSE Append(acc.subs, <<>>)
             at      == CHOOSE i \in 1..(Len(keys) + 1) : i > Len(keys) \/ keys[i] = leading
         IN IF subPath = ""
            THEN LeadingPaths(Tail(paths), [keys |-> keys, subs |-> subs, e |-> ""])
            ELSE IF at > Len(keys)
            THEN [keys |-> keys, subs |-> subs, e |-> "TypeError"]
            ELSE LeadingPaths(Tail(paths),
                              [keys |-> keys,
                               subs |-> [subs EXCEPT ![at] = Append(@, Str(subPath))],
                               e    |-> ""])

\* prop in leadingPaths: own or inherited.
InLeadingPaths(lp, prop) == prop \in Range(lp.keys) \cup ObjectPrototypeNames

\* leadingPaths[prop], for a prop that is in leadingPaths: the sub-paths
\* pushed under an own key, a function of length 0 for an inherited name.
SubPathsOf(lp, prop) ==
    IF prop \in Range(lp.keys)
    THEN lp.subs[CHOOSE i \in 1..Len(lp.keys) : lp.keys[i] = prop]
    ELSE <<>>

RECURSIVE keepListed(_, _, _)
\* The elements of an array whose index is in leadingPaths; i is the index
\* of the first element of elems.
keepListed(elems, lp, i) ==
    IF elems = <<>> THEN <<>>
    ELSE (IF InLeadingPaths(lp, ToString(i)) THEN <<Head(elems)>> ELSE <<>>)
         \o keepListed(Tail(elems), lp, i + 1)

RECURSIVE leaveIn(_, _, _)
RECURSIVE leaveProps(_, _, _, _)
\* for (const prop of Object.keys(source)) of operation$leave
leaveProps(h, source, lp, props) ==
    IF props = <<>> THEN Returned(h, Undefined)
    ELSE LET prop == Head(props) IN
         IF ~InLeadingPaths(lp, prop)
         THEN leaveProps(DelProp(h, source.v, prop), source, lp, Tail(props))
         ELSE IF Len(SubPathsOf(lp, prop)) > 0 /\ IsObjectLike(GetProp(h, source, prop))
         THEN LET r == leaveIn(h, GetProp(h, source, prop), SubPathsOf(lp, prop))
              IN IF r.e # "" THEN r ELSE leaveProps(r.h, source, lp, Tail(props))
         ELSE leaveProps(h, source, lp, Tail(props))

\* operation$leave past its two guards, for the paths of params.
leaveIn(h, source, paths) ==
    LET lp == LeadingPaths(paths, [keys |-> <<>>, subs |-> <<>>, e |-> ""])
    IN IF lp.e # "" THEN Thrown(h, lp.e)
       ELSE IF type(h, source) = "Object"
       THEN LET r == leaveProps(h, source, lp, ObjectKeys(h, source))
            IN IF r.e # "" THEN r ELSE Returned(r.h, Undefined)
       ELSE IF type(h, source) = "Array"
       THEN Returned([h EXCEPT ![source.v].vals = keepListed(h[source.v].vals, lp, 0)],
                     Undefined)
       ELSE Returned(h, Undefined)

operation_leave(h, source, params) ==
    IF ~IsObjectLike(source)
    THEN Thrown(h, "Invalid $leave. Requires an object source.")
    ELSE IF ~IsArray(h, params)
    THEN Thrown(h, "Invalid $leave params. Expecting array.")
    ELSE LET paths == h[params.v].vals
             r     == leaveIn(h, source, paths)
         IN IF r.e # "" THEN r
            ELSE [h |-> r.h, v |-> OperationChanged(paths), e |-> ""]

\* u.equals(a, b): deep equality of two values.
equals(h, a, b) == Plain(h, a) = Plain(h, b)

RECURSIVE pullFrom(_, _, _)
\* The elements of an array that equal none of the pulled values.
pullFrom(h, elems, pullValues) ==
    IF elems = <<>> THEN <<>>
    ELSE (IF \E i \in 1..Len(pullValues) : equals(h, pullValues[i], Head(elems))
          THEN <<>> ELSE <<Head(elems)>>)
         \o pullFrom(h, Tail(elems), pullValues)

RECURSIVE pullEach(_, _, _, _)
\* The loop of operation$pull over the paths of its params.
pullEach(h, source, values, paths) ==
    IF paths = <<>> THEN Returned(h, Undefined)
    ELSE LET path  == Head(paths)
             value == GetProp(h, values, path)
             dflt  == New(h, Cell("Array", <<>>, <<>>))
             array == get(dflt.h, source, PathSplit(path), dflt.v)
             pullValues == IF IsArray(dflt.h, value) THEN dflt.h[value.v].vals ELSE <<value>>
         IN IF ~IsArray(dflt.h, array)
            THEN Thrown(dflt.h, "Cannot pull from non-array value.")
            ELSE pullEach([dflt.h EXCEPT ![array.v].vals =
                              pullFrom(dflt.h, dflt.h[array.v].vals, pullValues)],
                          source, values, Tail(paths))

operation_pull(h, source, params) ==
    IF ~IsObjectLike(source)
    THEN Thrown(h, "Invalid $pull. Requires an object source.")
    ELSE IF ~IsObjectLike(params) \/ IsArray(h, params)
    THEN Thrown(h, "Invalid $pull params. Expecting non-array object.")
    ELSE LET paths == ObjectKeys(h, params)
             r     == pullEach(h, source, params, paths)
         IN IF r.e # "" THEN r
            ELSE [h |-> r.h, v |-> OperationChanged(paths), e |-> ""]

RECURSIVE concatEach(_, _, _, _)
\* The loop of operation$concat over the paths of its params.
concatEach(h, source, values, paths) ==
    IF paths = <<>> THEN Returned(h, Undefined)
    ELSE LET path  == Head(paths)
             value == GetProp(h, values, path)
             dflt  == New(h, Cell("Array", <<>>, <<>>))
             array == get(dflt.h, source, PathSplit(path), dflt.v)
         IN IF ~IsArray(dflt.h, array)
            THEN Thrown(dflt.h, "Cannot concat onto non-array value.")
            ELSE LET joined == New(dflt.h,
                                   Cell("Array", <<>>,
                                        dflt.h[array.v].vals
                                        \o (IF IsArray(dflt.h, value)
                                            THEN dflt.h[value.v].vals ELSE <<value>>)))
                 IN concatEach(set(joined.h, source, PathSplit(path), joined.v),
                               source, values, Tail(paths))

operation_concat(h, source, params) ==
    IF ~IsObjectLike(source)
    THEN Thrown(h, "Invalid $concat. Requires an object source.")
    ELSE IF ~IsObjectLike(params) \/ IsArray(h, params)
    THEN Thrown(h, "Invalid $concat params. Expecting non-array object.")
    ELSE LET paths == ObjectKeys(h, params)
             r     == concatEach(h, source, params, paths)
         IN IF r.e # "" THEN r
            ELSE [h |-> r.h, v |-> OperationChanged(paths), e |-> ""]

RECURSIVE defaultEach(_, _, _, _)
\* The loop of operation$default over the paths of its params.
defaultEach(h, source, values, paths) ==
    IF paths = <<>> THEN h
    ELSE defaultEach(IF Undefined = get(h, source, PathSplit(Head(paths)), Undefined)
                     THEN set(h, source, PathSplit(Head(paths)), GetProp(h, values, Head(paths)))
                     ELSE h,
                     source, values, Tail(paths))

operation_default(h, source, params) ==
    IF ~IsObjectLike(source)
    THEN Thrown(h, "Invalid $default. Requires an object source.")
    ELSE IF ~IsObjectLike(params) \/ IsArray(h, params)
    THEN Thrown(h, "Invalid $default params. Expecting non-array object.")
    ELSE LET paths == ObjectKeys(h, params)
         IN [h |-> defaultEach(h, source, params, paths), v |-> OperationChanged(paths), e |-> ""]

RECURSIVE deleteEach(_, _, _)
\* for (const [key] of Object.entries(source)) delete source[key]
deleteEach(h, a, keys) ==
    IF keys = <<>> THEN h ELSE deleteEach(DelProp(h, a, Head(keys)), a, Tail(keys))

\* A $propSortOrder that does not place the listed paths first.
sortListed_Unordered(h, source, origSource, paths) == h

RECURSIVE sortListed(_, _, _, _)
\* for (const path of paths) of operation$propSortOrder
sortListed(h, source, origSource, paths) ==
    IF paths = <<>> THEN h
    ELSE LET segs  == PathSplit(PropertyName(Head(paths)))
             value == get(h, origSource, segs, Undefined)
         IN sortListed(IF Undefined # value THEN set(h, source, segs, value) ELSE h,
                       source, origSource, Tail(paths))

RECURSIVE sortRest(_, _, _)
\* for (const [path, value] of Object.entries(u.toFlat(origSource, '')))
sortRest(h, source, entries) ==
    IF entries = <<>> THEN h
    ELSE LET segs  == PathSplit(Head(entries)[1])
             value == Head(entries)[2]
         IN sortRest(IF Undefined # value /\ Undefined = get(h, source, segs, Undefined)
                     THEN set(h, source, segs, value)
                     ELSE h,
                     source, Tail(entries))

operation_propSortOrder(h, source, params) ==
    IF type(h, source) # "Object"
    THEN Thrown(h, "Invalid $propSortOrder. Requires a plain object source.")
    ELSE IF ~IsArray(h, params)
    THEN Thrown(h, "Invalid $propSortOrder params. Expecting array.")
    ELSE LET paths == h[params.v].vals
             orig  == New(h, h[source.v])
             h1    == deleteEach(orig.h, source.v, ObjectKeys(orig.h, source))
             h2    == sortListed(h1, source, orig.v, paths)
             h3    == sortRest(h2, source, toFlat(h2, orig.v, <<>>))
         IN [h |-> h3, v |-> OperationChanged(paths), e |-> ""]

-----------------------------------------------------------------------------
(* The registries.  MergeChange.prototype holds the merge handlers under   *)
(* `merge${type1}${type2}` and the operations under `operation${name}`; a  *)
(* name that is not bound reads as undefined.                              *)

KINDS == [MERGE |-> "merge", PATCH |-> "patch", UPDATE |-> "update"]

TypeNames == {"Undefined", "Number", "String", "Object", "Array", "Date",
              "Set", "WeakSet", "Map", "WeakMap", "Custom", "Any"}

OperationNames == {"$set", "$unset", "$leave", "$push", "$pull", "$concat",
                   "$default", "$propSortOrder", "$custom"}

\* The callbacks a caller registers: functions of the caller's program.
CustomCallbacks == {"fnA", "fnB"}

\* The merge handlers the prototype is built with.
BuiltinHandlers ==
    [p \in TypeNames \X TypeNames |->
        CASE p = <<"Array", "Array">>       -> "mergeArrayArray"
          [] p = <<"Object", "Object">>     -> "mergeObjectObject"
          [] p = <<"Undefined", "Date">>    -> "mergeUndefinedDate"
          [] p = <<"Undefined", "Set">>     -> "mergeUndefinedSet"
          [] p = <<"Undefined", "WeakSet">> -> "mergeUndefinedWeakSet"
          [] p = <<"Undefined", "Map">>     -> "mergeUndefinedMap"
          [] p = <<"Undefined", "WeakMap">> -> "mergeUndefinedWeakMap"
          [] p = <<"Undefined", "Array">>   -> "mergeUndefinedArray"
          [] p = <<"Undefined", "Object">>  -> "mergeUndefinedObject"
          [] p = <<"Undefined", "Any">>     -> "mergeUndefinedAny"
          [] p = <<"Any", "Undefined">>     -> "mergeAnyUndefined"
          [] p = <<"Any", "Any">>           -> "mergeAnyAny"
          [] OTHER                          -> "undefined"]

\* The operations the prototype is built with.
BuiltinOperations ==
    [n \in OperationNames |->
        CASE n = "$set"           -> "operation$set"
          [] n = "$unset"         -> "operation$unset"
          [] n = "$leave"         -> "operation$leave"
          [] n = "$push"          -> "operation$push"
          [] n = "$pull"          -> "operation$pull"
          [] n = "$concat"        -> "operation$concat"
          [] n = "$default"       -> "operation$default"
          [] n = "$propSortOrder" -> "operation$propSortOrder"
          [] OTHER                -> "undefined"]

\* Boolean(this[`operation${operation}`])
isOperation(operation) ==
    operation \in OperationNames /\ operations[operation] # "undefined"

\* this[`operation${operation}`](source, params), when that is bound.  A
\* caller's callback leaves source alone, fnA reporting a change and any
\* other none.
operation(h, source, op, params) ==
    IF ~isOperation(op) THEN [h |-> h, v |-> FALSE, e |-> ""]
    ELSE CASE operations[op] = "operation$set"   -> operation_set(h, source, params)
           [] operations[op] = "operation$unset" -> operation_unset(h, source, params)
           [] operations[op] = "operation$push"  -> operation_push(h, source, params)
           [] operations[op] = "operation$leave" -> operation_leave(h, source, params)
           [] operations[op] = "operation$pull"  -> operation_pull(h, source, params)
           [] operations[op] = "operation$concat" -> operation_concat(h, source, params)
           [] operations[op] = "operation$default" -> operation_default(h, source, params)
           [] operations[op] = "operation$propSortOrder"
                -> operation_propSortOrder(h, source, params)
           [] operations[op] = "fnA"             -> [h |-> h, v |-> TRUE, e |-> ""]
           [] OTHER                              -> [h |-> h, v |-> FALSE, e |-> ""]

RECURSIVE extractLoop(_, _, _, _)
\* The loop of extractOperations over Object.keys(value).
extractLoop(h, value, res, keys) ==
    IF keys = <<>> THEN h
    ELSE IF isOperation(Head(keys))
    THEN extractLoop(DelProp(SetProp(h, res.v, Head(keys), GetProp(h, value, Head(keys))),
                             value.v, Head(keys)),
                     value, res, Tail(keys))
    ELSE extractLoop(h, value, res, Tail(keys))

\* extractOperations(value): the operations of value in a new object, each
\* deleted from value.
extractOperations(h, value) ==
    LET res == New(h, Cell("Object", <<>>, <<>>))
    IN IF ~IsObjectLike(value) THEN Returned(res.h, res.v)
       ELSE Returned(extractLoop(res.h, value, res.v, ObjectKeys(res.h, value)), res.v)

-----------------------------------------------------------------------------
(* The dispatcher and the built-in merge handlers.  this[kind](a, b) is    *)
(* one run of the reducer of prepareMerge(kind).                           *)

RECURSIVE prepareMerge(_, _, _, _)

\* A map that yields no element.
mapClone_None(h, elems, knd, acc) == [h |-> h, vs |-> acc, e |-> ""]

RECURSIVE mapClone(_, _, _, _)
\* second.map(value => this[kind](undefined, value)): the heap and the
\* elements of the new array.
mapClone(h, elems, knd, acc) ==
    IF elems = <<>> THEN [h |-> h, vs |-> acc, e |-> ""]
    ELSE LET r == prepareMerge(h, Undefined, Head(elems), knd)
         IN IF r.e # "" THEN [h |-> r.h, vs |-> acc, e |-> r.e]
            ELSE mapClone(r.h, Tail(elems), knd, Append(acc, r.v))

\* A mergeArrayArray that keeps the elements of first before those of second.
mergeArrayArray_Concat(h, first, second, knd) ==
    IF KINDS.MERGE = knd
    THEN LET m == mapClone(h, h[first.v].vals \o h[second.v].vals, knd, <<>>)
         IN IF m.e # "" THEN Thrown(m.h, m.e)
            ELSE LET n == New(m.h, Cell("Array", <<>>, m.vs)) IN Returned(n.h, n.v)
    ELSE Returned(ArrayPushAll(h, first.v, h[second.v].vals), first)

mergeArrayArray(h, first, second, knd) ==
    IF KINDS.MERGE = knd
    THEN LET m == mapClone(h, h[second.v].vals, knd, <<>>)
         IN IF m.e # "" THEN Thrown(m.h, m.e)
            ELSE LET n == New(m.h, Cell("Array", <<>>, m.vs)) IN Returned(n.h, n.v)
    ELSE Returned(h, second)

\* let isChange = MergeChange.KINDS.MERGE === kind
InitialIsChange(knd) == KINDS.MERGE = knd

\* A mergeObjectObject that builds a new object under every kind.
InitialResult_AlwaysNew(h, first, knd) == New(h, Cell("Object", <<>>, <<>>))

\* let result = MergeChange.KINDS.PATCH === kind ? first : {}
InitialResult(h, first, knd) ==
    IF KINDS.PATCH = knd THEN [h |-> h, v |-> first]
    ELSE New(h, Cell("Object", <<>>, <<>>))

\* return isChange ? result : first
FinalResult(isChange, res, first) == IF isChange THEN res ELSE first

\* Whether the loop over secondKeys queues the key as an operation.
QueuesOperation(key) == isOperation(key)

RECURSIVE firstKeysLoop(_, _, _)
\* for (const key of firstKeys): st is the loop's state (heap, isChange,
\* secondKeys, error), c the handler's first, second, kind and result.
firstKeysLoop(st, c, keys) ==
    IF keys = <<>> \/ st.e # "" THEN st
    ELSE LET key      == Head(keys)
             inSecond == HasProp(st.h, c.second, key)
             r == IF inSecond
                  THEN prepareMerge(st.h, GetProp(st.h, c.first, key),
                                    GetProp(st.h, c.second, key), c.kind)
                  ELSE prepareMerge(st.h, GetProp(st.h, c.first, key), Undefined, c.kind)
         IN IF r.e # "" THEN [st EXCEPT !.h = r.h, !.e = r.e]
            ELSE firstKeysLoop(
                   [h          |-> SetProp(r.h, c.result.v, key, r.v),
                    isChange   |-> st.isChange \/ r.v # GetProp(r.h, c.first, key),
                    secondKeys |-> IF inSecond THEN Without(st.secondKeys, key)
                                   ELSE st.secondKeys,
                    operations |-> st.operations,
                    e          |-> ""],
                   c, Tail(keys))

\* A queue that takes each operation in at its front.
QueueOperation_AtFront(ops, key, params) == <<(<<key, params>>)>> \o ops

\* operations.push([key, second[key]])
QueueOperation(ops, key, params) == Append(ops, <<key, params>>)

RECURSIVE secondKeysLoop(_, _, _)
\* for (const key of secondKeys)
secondKeysLoop(st, c, keys) ==
    IF keys = <<>> \/ st.e # "" THEN st
    ELSE LET key == Head(keys) IN
         IF QueuesOperation(key)
         THEN secondKeysLoop(
                [st EXCEPT !.operations =
                    QueueOperation(st.operations, key, GetProp(st.h, c.second, key))],
                c, Tail(keys))
         ELSE LET r == prepareMerge(st.h, Undefined, GetProp(st.h, c.second, key), c.kind)
              IN IF r.e # "" THEN [st EXCEPT !.h = r.h, !.e = r.e]
                 ELSE secondKeysLoop(
                        [st EXCEPT !.h = SetProp(r.h, c.result.v, key, r.v),
                                   !.isChange = st.isChange
                                                \/ r.v # GetProp(r.h, c.first, key)],
                        c, Tail(keys))

RECURSIVE operationsLoop(_, _, _)
\* isChange = this.operation(result, operation, params) || isChange, r being
\* what the operation threw or returned; then the operations that follow.
operationsStep(st, c, r, ops) ==
    IF r.e # "" THEN [st EXCEPT !.h = r.h, !.e = r.e]
    ELSE operationsLoop([st EXCEPT !.h = r.h, !.isChange = r.v \/ st.isChange], c, ops)

\* for (const [operation, params] of operations)
operationsLoop(st, c, ops) ==
    IF ops = <<>> \/ st.e # "" THEN st
    ELSE operationsStep(st, c, operation(st.h, c.result, Head(ops)[1], Head(ops)[2]),
                        Tail(ops))

\* What mergeObjectObject throws or returns once its loops have ended in
\* state st, on heap h when it throws.
ObjectObjectEnds(st, h, res, first) ==
    IF st.e # "" THEN Thrown(h, st.e)
    ELSE Returned(st.h, FinalResult(st.isChange, res, first))

\* A mergeObjectObject that undoes what it wrote when an operation throws.
mergeObjectObject_Undone(h, first, second, knd) ==
    LET res == InitialResult(h, first, knd)
        c   == [first |-> first, second |-> second, kind |-> knd, result |-> res.v]
        st0 == [h |-> res.h, isChange |-> InitialIsChange(knd),
                secondKeys |-> ObjectKeys(h, second), operations |-> <<>>, e |-> ""]
        st1 == firstKeysLoop(st0, c, ObjectKeys(h, first))
        st2 == secondKeysLoop(st1, c, st1.secondKeys)
        st3 == operationsLoop(st2, c, st2.operations)
    IN ObjectObjectEnds(st3, h, res.v, first)

mergeObjectObject(h, first, second, knd) ==
    LET res == InitialResult(h, first, knd)
        c   == [first |-> first, second |-> second, kind |-> knd, result |-> res.v]
        st0 == [h |-> res.h, isChange |-> InitialIsChange(knd),
                secondKeys |-> ObjectKeys(h, second), operations |-> <<>>, e |-> ""]
        st1 == firstKeysLoop(st0, c, ObjectKeys(h, first))
        st2 == secondKeysLoop(st1, c, st1.secondKeys)
        st3 == operationsLoop(st2, c, st2.operations)
    IN ObjectObjectEnds(st3, st3.h, res.v, first)

\* MergeChange.KINDS.MERGE === kind ? new Date(second) : second
mergeUndefinedDate(h, first, second, knd) ==
    IF KINDS.MERGE = knd
    THEN LET n == New(h, h[second.v]) IN Returned(n.h, n.v)
    ELSE Returned(h, second)

mergeUndefinedArray(h, first, second, knd) ==
    IF KINDS.MERGE = knd
    THEN LET n == New(h, Cell("Array", <<>>, <<>>))
         IN prepareMerge(n.h, n.v, second, knd)
    ELSE Returned(h, second)

mergeUndefinedObject(h, first, second, knd) ==
    IF KINDS.MERGE = knd
    THEN LET n == New(h, Cell("Object", <<>>, <<>>))
         IN prepareMerge(n.h, n.v, second, knd)
    ELSE LET x == extractOperations(h, second)
         IN prepareMerge(x.h, second, x.v, knd)

mergeUndefinedAny(h, first, second, knd) == Returned(h, second)

mergeAnyUndefined(h, first, second, knd) == prepareMerge(h, Undefined, first, knd)

mergeAnyAny(h, first, second, knd) == Returned(h, second)

\* this[action](first, second, kind) for the callback bound under action.
Invoke(callback, h, first, second, knd) ==
    CASE callback = "mergeArrayArray"      -> mergeArrayArray(h, first, second, knd)
      [] callback = "mergeObjectObject"    -> mergeObjectObject(h, first, second, knd)
      [] callback = "mergeUndefinedDate"   -> mergeUndefinedDate(h, first, second, knd)
      [] callback = "mergeUndefinedArray"  -> mergeUndefinedArray(h, first, second, knd)
      [] callback = "mergeUndefinedObject" -> mergeUndefinedObject(h, first, second, knd)
      [] callback = "mergeUndefinedAny"    -> mergeUndefinedAny(h, first, second, knd)
      [] callback = "mergeAnyUndefined"    -> mergeAnyUndefined(h, first, second, knd)
      [] callback = "mergeAnyAny"          -> mergeAnyAny(h, first, second, knd)
      [] callback = "fnA"                  -> Returned(h, first)
      [] OTHER                             -> Returned(h, second)

\* Candidates that try the secondary type's handler before the primary's.
Actions_SecondTypeFirst(firstType, secondType) ==
    << <<firstType, secondType>>, <<"Any", secondType>>,
       <<firstType, "Any">>, <<"Any", "Any">> >>

\* The candidate handler names, in the order they are tried.
Actions(firstType, secondType) ==
    << <<firstType, secondType>>, <<firstType, "Any">>,
       <<"Any", secondType>>, <<"Any", "Any">> >>

\* The reducer of prepareMerge(kind): the first bound action is invoked.
prepareMerge(h, first, second, knd) ==
    LET actions == Actions(type(h, first), type(h, second))
        bound   == {i \in 1..Len(actions) : handlers[actions[i]] # "undefined"}
    IN IF bound = {} THEN Thrown(h, "Unsupported merge types.")
       ELSE LET i == CHOOSE j \in bound : \A k \in bound : j <= k
            IN Invoke(handlers[actions[i]], h, first, second, knd)

-----------------------------------------------------------------------------
(* The values a caller passes.                                             *)

Scalars == {TNum(n) : n \in 1..MaxNum}

\* An object literal with the given entries, those with no value left out.
Absent == [t |-> "absent", v |-> 0, s |-> "", keys |-> <<>>, kids |-> <<>>]
RECURSIVE PresentKeys(_, _)
PresentKeys(ks, vs) ==
    IF ks = <<>> THEN <<>>
    ELSE IF Head(vs) = Absent THEN PresentKeys(Tail(ks), Tail(vs))
    ELSE <<Head(ks)>> \o PresentKeys(Tail(ks), Tail(vs))
RECURSIVE PresentVals(_)
PresentVals(vs) ==
    IF vs = <<>> THEN <<>>
    ELSE IF Head(vs) = Absent THEN PresentVals(Tail(vs))
    ELSE <<Head(vs)>> \o PresentVals(Tail(vs))
Literal(ks, vs) == TObj(PresentKeys(ks, vs), PresentVals(vs))

\* What a source object holds under "a".
FirstInner ==
    { TObj(<<"x">>, <<TNum(1)>>),
      TObj(<<"x", "y">>, <<TNum(1), TNum(2)>>),
      TObj(<<"x", "$unset">>, <<TNum(1), TArr(<<TStr("x")>>)>>),
      TArr(<<TNum(1)>>),
      TArr(<<>>),
      TNum(1) }

\* The parameters of the operations a change carries.
OperationSets ==
    { <<>>,
      << <<"$unset", TArr(<<TStr("b")>>)>> >>,
      << <<"$unset", TArr(<<TStr("a.x")>>)>> >>,
      << <<"$unset", TArr(<<>>)>> >>,
      << <<"$set", TObj(<<"b">>, <<TNum(1)>>)>> >>,
      << <<"$set", TObj(<<"a", "a.y">>, <<TObj(<<"x">>, <<TNum(2)>>), TNum(2)>>)>> >>,
      << <<"$set", TObj(<<"a.y">>, <<TNum(2)>>)>> >>,
      << <<"$push", TObj(<<"a">>, <<TNum(2)>>)>> >>,
      << <<"$set", TObj(<<"a">>, <<TArr(<<>>)>>)>>,
         <<"$push", TObj(<<"a">>, <<TNum(1)>>)>> >> }

\* What a change holds under "a".
SecondInner ==
    { TObj(<<"x">>, <<TNum(1)>>),
      TObj(<<"y">>, <<TNum(2)>>),
      TObj(<<"y", "$unset">>, <<TNum(2), TArr(<<TStr("x")>>)>>),
      TArr(<<TNum(1)>>),
      TNum(1) }

\* Arrays, for the array handlers.
ArrayTrees ==
    { TArr(<<>>),
      TArr(<<TNum(1), TNum(2)>>),
      TArr(<<TObj(<<"x">>, <<TNum(1)>>), TArr(<<TNum(1)>>)>>),
      TArr(<<TObj(<<"x", "$unset">>, <<TNum(1), TArr(<<TStr("x")>>)>>)>>),
      TArr(<<TDate(1)>>) }

\* The first argument of a call.
FirstTrees ==
    { Literal(<<"a", "b">>, <<a, b>>) :
        a \in FirstInner \cup {Absent}, b \in Scalars \cup {Absent} }
    \cup { TObj(<<"$set", "b">>, <<TObj(<<"b">>, <<TNum(2)>>), TNum(1)>>) }
    \cup ArrayTrees \cup {TUndef, TNum(1)}

\* The second argument of a call.
SecondTrees ==
    { Literal(<<"a", "b", ops[i][1]>>, <<a, b, ops[i][2]>>) :
        a \in SecondInner \cup {Absent}, b \in {TNum(1), Absent},
        ops \in {o \in OperationSets : Len(o) = 1}, i \in {1} }
    \cup { Literal(<<"a", "b">>, <<a, b>>) :
             a \in SecondInner \cup {Absent}, b \in {TNum(1), Absent} }
    \cup { TObj(<<o[1][1], o[2][1]>>, <<o[1][2], o[2][2]>>) :
             o \in {o \in OperationSets : Len(o) = 2} }
    \cup ArrayTrees \cup {TUndef, TNum(1)}

\* The arguments after the second.
MoreTrees ==
    { TObj(<<"b">>, <<TNum(2)>>),
      TObj(<<"$push">>, <<TObj(<<"a">>, <<TNum(2)>>)>>),
      TUndef }

-----------------------------------------------------------------------------
(* The calls: merge(...values), patch(...values), update(...values) are    *)
(* values.reduce(reducer) with no initial value, taken one value at a      *)
(* time.                                                                   *)

Init ==
    /\ heap = <<>>
    /\ kind = "none"
    /\ args = <<>>
    /\ argTrees = <<>>
    /\ argCells = <<>>
    /\ result = Undefined
    /\ err = ""
    /\ handlers = BuiltinHandlers
    /\ operations = BuiltinOperations
    /\ log = <<>>

\* The call begins: reduce takes its first value as the accumulator.
Start(knd, tr) ==
    /\ kind = "none"
    /\ LET a == Alloc(heap, tr)
       IN /\ heap' = a.h
          /\ args' = <<a.v>>
          /\ argCells' = <<Reach(a.h, a.v)>>
          /\ result' = a.v
    /\ kind' = knd
    /\ argTrees' = <<tr>>
    /\ err' = ""
    /\ UNCHANGED <<handlers, operations, log>>

\* The reducer runs on the accumulator and the next value.
Fold(tr) ==
    /\ kind # "none"
    /\ err = ""
    /\ Len(args) < MaxArgs
    /\ LET a == Alloc(heap, tr)
           r == prepareMerge(a.h, result, a.v, kind)
       IN /\ heap' = r.h
          /\ result' = r.v
          /\ err' = r.e
          /\ args' = Append(args, a.v)
          /\ argCells' = Append(argCells, Reach(a.h, a.v))
    /\ argTrees' = Append(argTrees, tr)
    /\ UNCHANGED <<kind, handlers, operations, log>>

Next ==
    \/ \E knd \in {KINDS.MERGE, KINDS.PATCH, KINDS.UPDATE}, tr \in FirstTrees : Start(knd, tr)
    \/ \E tr \in (IF Len(args) = 1 THEN SecondTrees ELSE MoreTrees) : Fold(tr)

Spec == Init /\ [][Next]_vars

-----------------------------------------------------------------------------
(* merge(x, x): a value merged with itself, or with an equal value built   *)
(* apart from it.                                                          *)

\* What a plain value holds under "a".
PlainInner ==
    Scalars \cup
    { TStr("s"),
      TArr(<<TNum(1)>>),
      TArr(<<TObj(<<"x">>, <<TNum(1)>>), TNum(MaxNum)>>),
      TObj(<<"x">>, <<TNum(1)>>),
      TObj(<<"x", "y">>, <<TArr(<<TNum(1), TNum(MaxNum)>>), TObj(<<"z">>, <<TNum(1)>>)>>) }

\* Acyclic plain values without operation keys.
PlainTrees ==
    { Literal(<<"a", "b">>, <<a, b>>) :
        a \in PlainInner \cup {Absent}, b \in Scalars \cup {TStr("s"), Absent} }
    \cup PlainInner \cup {TArr(<<>>), TUndef}

\* The reducer runs on the accumulator and, as the next value, the first
\* value again (same) or an equal value of the caller's.
FoldSelf(same) ==
    /\ kind # "none"
    /\ err = ""
    /\ Len(args) = 1
    /\ LET a == IF same THEN [h |-> heap, v |-> args[1]] ELSE Alloc(heap, argTrees[1])
           r == prepareMerge(a.h, result, a.v, kind)
       IN /\ heap' = r.h
          /\ result' = r.v
          /\ err' = r.e
          /\ args' = Append(args, a.v)
          /\ argCells' = Append(argCells, Reach(a.h, a.v))
    /\ argTrees' = Append(argTrees, argTrees[1])
    /\ UNCHANGED <<kind, handlers, operations, log>>

NextSelf ==
    \/ \E tr \in PlainTrees : Start(KINDS.MERGE, tr)
    \/ \E same \in BOOLEAN : FoldSelf(same)

SpecSelf == Init /\ [][NextSelf]_vars

-----------------------------------------------------------------------------
(* Changes whose operation keys stand before, between and after their      *)
(* plain keys.  An entry is a key with its value.                          *)

FromEntries(es) ==
    TObj([i \in 1..Len(es) |-> es[i][1]], [i \in 1..Len(es) |-> es[i][2]])

RECURSIVE Interleavings(_, _)
\* The key orders an object literal can list two runs of entries in, each
\* run in its own order.
Interleavings(p, o) ==
    IF p = <<>> THEN {o}
    ELSE IF o = <<>> THEN {p}
    ELSE {<<Head(p)>> \o r : r \in Interleavings(Tail(p), o)}
         \cup {<<Head(o)>> \o r : r \in Interleavings(p, Tail(o))}

\* The plain keys of a change.
OrderedPlain ==
    { <<>>,
      << <<"b", TNum(1)>> >>,
      << <<"a", TArr(<<TNum(1)>>)>> >>,
      << <<"a", TObj(<<"y">>, <<TNum(1)>>)>> >>,
      << <<"a", TObj(<<"$push">>, <<TObj(<<"x">>, <<TNum(1)>>)>>)>> >>,
      << <<"a", TArr(<<TNum(1)>>)>>, <<"b", TNum(1)>> >> }

\* The operation keys of a change.
OrderedOperations ==
    { << <<"$set", TObj(<<"b">>, <<TNum(MaxNum)>>)>> >>,
      << <<"$unset", TArr(<<TStr("b")>>)>> >>,
      << <<"$push", TObj(<<"a">>, <<TNum(MaxNum)>>)>> >>,
      << <<"$set", TObj(<<"a">>, <<TArr(<<>>)>>)>>, <<"$push", TObj(<<"a">>, <<TNum(1)>>)>> >>,
      << <<"$push", TObj(<<"a">>, <<TNum(1)>>)>>, <<"$set", TObj(<<"a">>, <<TArr(<<>>)>>)>> >>,
      << <<"$set", TObj(<<"b">>, <<TNum(MaxNum)>>)>>, <<"$push", TObj(<<"a">>, <<TNum(1)>>)>> >>,
      << <<"$unset", TArr(<<TStr("a")>>)>>, <<"$set", TObj(<<"a.x">>, <<TNum(MaxNum)>>)>> >>,
      << <<"$set", TObj(<<"a.x">>, <<TNum(MaxNum)>>)>>, <<"$unset", TArr(<<TStr("a")>>)>> >>,
      << <<"$default", TObj(<<"b">>, <<TNum(MaxNum)>>)>>, <<"$unset", TArr(<<TStr("b")>>)>> >> }

OrderedFirstTrees ==
    { Literal(<<"a", "b">>, <<a, b>>) :
        a \in {TArr(<<TNum(1)>>), TObj(<<"x">>, <<TNum(1)>>), Absent},
        b \in {TNum(1), Absent} }

OrderedSecondTrees ==
    { FromEntries(es) :
        es \in UNION { Interleavings(p, o) : p \in OrderedPlain, o \in OrderedOperations } }

NextOrdered ==
    \/ \E knd \in {KINDS.MERGE, KINDS.PATCH, KINDS.UPDATE}, tr \in OrderedFirstTrees :
          Start(knd, tr)
    \/ \E tr \in (IF Len(args) = 1 THEN OrderedSecondTrees ELSE MoreTrees) : Fold(tr)

SpecOrdered == Init /\ [][NextOrdered]_vars

-----------------------------------------------------------------------------
(* The dispatcher on any content of the handler registry: the merge*       *)
(* properties of the prototype, each one a built-in handler, a callback of *)
(* the caller, or not there.                                               *)

Registries ==
    { [BuiltinHandlers EXCEPT ![<<"Array", "Array">>] = c1,
                              ![<<"Array", "Any">>]   = c2,
                              ![<<"Any", "Array">>]   = c3,
                              ![<<"Any", "Any">>]     = c4] :
        c1 \in {"undefined", "mergeArrayArray", "fnA"},
        c2 \in {"undefined", "fnA", "fnB"},
        c3 \in {"undefined", "fnA", "fnB"},
        c4 \in {"undefined", "mergeAnyAny", "fnB"} }

DispatchFirstTrees == {TArr(<<TNum(1)>>), TNum(1), TUndef}
DispatchSecondTrees == {TArr(<<TNum(MaxNum)>>), TNum(MaxNum)}

InitDispatch ==
    /\ heap = <<>>
    /\ kind = "none"
    /\ args = <<>>
    /\ argTrees = <<>>
    /\ argCells = <<>>
    /\ result = Undefined
    /\ err = ""
    /\ handlers \in Registries
    /\ operations = BuiltinOperations
    /\ log = <<>>

NextDispatch ==
    \/ \E knd \in {KINDS.MERGE, KINDS.PATCH, KINDS.UPDATE}, tr \in DispatchFirstTrees :
          Start(knd, tr)
    \/ \E tr \in (IF Len(args) = 1 THEN DispatchSecondTrees ELSE MoreTrees) : Fold(tr)

SpecDispatch == InitDispatch /\ [][NextDispatch]_vars

-----------------------------------------------------------------------------
(* The registration API.  Its arguments are any values: strings, numbers,  *)
(* undefined, functions.                                                   *)

\* A function of the program, named by the callback it is.
Fn(id) == [t |-> "Function", v |-> 0, s |-> id]

\* !value
Falsy(x) ==
    \/ x = Undefined
    \/ (x.t = "String" /\ x.s = "")
    \/ (x.t = "Number" /\ x.v = 0)

\* The guard `!type || typeof type !== 'string'` does not throw.
ValidName(x) == ~Falsy(x) /\ x.t = "String"

\* A registration that does not check its callback.
ValidCallback_Unchecked(x) == TRUE

\* The guard `!callback || typeof callback !== 'function'` does not throw.
ValidCallback(x) == ~Falsy(x) /\ x.t = "Function"

\* What reading a registry slot yields: the function bound, or undefined.
Bound(id) == IF id = "undefined" THEN Undefined ELSE Fn(id)

\* if (!name.startsWith('$')) name = '$' + name
DollarName(name) ==
    CASE name = "set"    -> "$set"
      [] name = "custom" -> "$custom"
      [] OTHER           -> name

\* addMerge(type1, type2, callback) on handler registry hs: the registry it
\* leaves, the value it returns and the message of the Error it throws.
addMerge(hs, type1, type2, callback) ==
    IF ~ValidName(type1)
    THEN [reg |-> hs, ret |-> Undefined, e |-> "Invalid merge type as position 1."]
    ELSE IF ~ValidName(type2)
    THEN [reg |-> hs, ret |-> Undefined, e |-> "Invalid merge type as position 2."]
    ELSE IF ~ValidCallback(callback)
    THEN [reg |-> hs, ret |-> Undefined, e |-> "Invalid merge callback."]
    ELSE [reg |-> [hs EXCEPT ![<<type1.s, type2.s>>] = callback.s],
          ret |-> Bound(hs[<<type1.s, type2.s>>]),
          e   |-> ""]

\* addOperation(name, callback) on operation registry os.
addOperation(os, name, callback) ==
    IF ~ValidName(name)
    THEN [reg |-> os, ret |-> Undefined, e |-> "Invalid operation name."]
    ELSE IF ~ValidCallback(callback)
    THEN [reg |-> os, ret |-> Undefined, e |-> "Invalid operation callback."]
    ELSE [reg |-> [os EXCEPT ![DollarName(name.s)] = callback.s],
          ret |-> Bound(os[DollarName(name.s)]),
          e   |-> ""]

\* The type pairs a caller registers handlers for, valid and not.
MergeTypeArgs ==
    { <<Str("Array"), Str("Array")>>, <<Str("Custom"), Str("Custom")>>,
      <<Str(""), Str("Array")>>, <<Num(1), Str("Array")>>,
      <<Str("Array"), Str("")>>, <<Str("Array"), Undefined>> }

\* The operation names a caller registers, valid and not.
OperationNameArgs == {Str("$set"), Str("set"), Str("$custom"), Str(""), Num(1)}

\* The callbacks a caller passes: its own function, values that are no
\* function, and whatever an earlier registration returned.
CallbackArgs == {Fn("fnA"), Num(1), Undefined} \cup {log[i].ret : i \in 1..Len(log)}

\* One call of the API, as the log keeps it.
LogEntry(fn, a1, a2, cb, r) ==
    [fn |-> fn, a1 |-> a1, a2 |-> a2, cb |-> cb, ret |-> r.ret, e |-> r.e,
     handlersBefore |-> handlers, operationsBefore |-> operations]

AddMerge(type1, type2, callback) ==
    /\ Len(log) < MaxCalls
    /\ LET r == addMerge(handlers, type1, type2, callback)
       IN /\ handlers' = r.reg
          /\ log' = Append(log, LogEntry("addMerge", type1, type2, callback, r))
    /\ UNCHANGED <<heap, kind, args, argTrees, argCells, result, err, operations>>

AddOperation(name, callback) ==
    /\ Len(log) < MaxCalls
    /\ LET r == addOperation(operations, name, callback)
       IN /\ operations' = r.reg
          /\ log' = Append(log, LogEntry("addOperation", name, Undefined, callback, r))
    /\ UNCHANGED <<heap, kind, args, argTrees, argCells, result, err, handlers>>

NextReg ==
    \/ \E p \in MergeTypeArgs, cb \in CallbackArgs : AddMerge(p[1], p[2], cb)
    \/ \E n \in OperationNameArgs, cb \in CallbackArgs : AddOperation(n, cb)

SpecReg == Init /\ [][NextReg]_vars

-----------------------------------------------------------------------------
(* Direct calls of an operation: mc.operation(source, name, params) on a   *)
(* source object of the caller.                                            *)

\* A boolean, as a value.
Bool(b) == [t |-> "Boolean", v |-> IF b THEN 1 ELSE 0, s |-> ""]

\* What a source object holds under "a".
SourceInner ==
    { TArr(<<TNum(1)>>),
      TArr(<<TNum(1), TNum(2)>>),
      TObj(<<"x">>, <<TArr(<<TNum(1)>>)>>),
      TObj(<<"x", "y">>, <<TNum(1), TNum(2)>>),
      TObj(<<"y", "x">>, <<TNum(2), TObj(<<"z">>, <<TNum(1)>>)>>),
      TNum(1) }

\* The source objects operations are applied to.
SourceTrees ==
    { Literal(<<"a", "b", "c", "toString">>, <<a, b, c, d>>) :
        a \in SourceInner \cup {Absent},
        b \in {TNum(1), TArr(<<>>), Absent},
        c \in {TNum(2), Absent},
        d \in {TNum(1), Absent} }

\* Source objects with their keys in another order, some without a value.
UnsortedTrees ==
    { Literal(<<"c", "a", "b">>, <<c, a, b>>) :
        a \in { TObj(<<"y", "x">>, <<TNum(2), TNum(1)>>),
                TObj(<<"x", "u", "y">>, <<TNum(1), TUndef, TNum(2)>>),
                TObj(<<"y", "x">>, <<TNum(2), TObj(<<"z">>, <<TNum(1)>>)>>),
                TArr(<<TNum(1)>>) },
        b \in {TNum(1), TUndef, Absent},
        c \in {TNum(2), Absent} }

\* The path lists of $propSortOrder.
SortPaths ==
    { <<>>, <<"a">>, <<"b", "a">>, <<"a.x">>, <<"a.x", "c">>, <<"a.y", "a.x">>,
      <<"b", "a.u", "c">>, <<"c", "b", "a.y">>, <<"a.x.z", "b">> }

\* The path lists of $leave.
LeavePaths ==
    { <<>>, <<"a">>, <<"b">>, <<"c", "a">>, <<"a.x">>, <<"a.y", "a.x">>,
      <<"a.x.z">>, <<"a", "a.x">>, <<"a.0">>, <<"b", "a.y">> }

\* A path list as a params array.
PathArray(paths) == TArr([i \in 1..Len(paths) |-> TStr(paths[i])])

\* The values pushed, pulled, concatenated and defaulted.
OperandTrees == {TNum(MaxNum), TArr(<<TNum(1), TNum(2)>>), TObj(<<"x">>, <<TNum(1)>>)}

\* The defaults given for key "a".
DefaultTrees ==
    { TNum(MaxNum),
      TObj(<<"x", "w">>, <<TNum(MaxNum), TNum(MaxNum)>>),
      TObj(<<"x", "w">>, <<TObj(<<"z", "v">>, <<TNum(MaxNum), TNum(MaxNum)>>), TArr(<<TNum(1)>>)>>) }

\* The operations a caller applies, each with its params.
OperationCalls ==
    { <<"$push", TObj(<<"a">>, <<v>>)>> : v \in OperandTrees }
    \cup { <<"$push", TObj(<<"a.x">>, <<v>>)>> : v \in OperandTrees }
    \cup { <<"$push", TObj(<<"b", "a">>, <<v, TNum(1)>>)>> : v \in OperandTrees }
    \cup { <<"$leave", PathArray(paths)>> : paths \in LeavePaths }
    \cup { <<"$default", TObj(<<"b", "a">>, <<TNum(MaxNum), v>>)>> : v \in DefaultTrees }
    \cup { <<"$propSortOrder", PathArray(paths)>> : paths \in SortPaths }
    \cup { <<name, TObj(<<"a">>, <<v>>)>> :
             name \in {"$pull", "$concat"}, v \in OperandTrees \cup {TNum(1)} }
    \cup { <<"$set", TObj(<<"a.x", "b">>, <<v, TNum(MaxNum)>>)>> : v \in OperandTrees }
    \cup { <<"$unset", PathArray(paths)>> : paths \in {<<"a.x">>, <<"b", "c">>, <<"a.*">>} }
    \cup { <<"$default", TObj(<<"a.x", "c">>, <<v, TNum(1)>>)>> : v \in OperandTrees }

\* mc.operation(source, name, params)
Operate(name, source, params) ==
    /\ kind = "none"
    /\ LET a == Alloc(heap, source)
           b == Alloc(a.h, params)
           r == operation(b.h, a.v, name, b.v)
       IN /\ heap' = r.h
          /\ args' = <<a.v, b.v>>
          /\ argCells' = <<Reach(b.h, a.v), Reach(b.h, b.v)>>
          /\ result' = IF r.e = "" THEN Bool(r.v) ELSE Undefined
          /\ err' = r.e
    /\ kind' = name
    /\ argTrees' = <<source, params>>
    /\ UNCHANGED <<handlers, operations, log>>

\* The sources an operation is applied to.  A key that is a name of
\* Object.prototype is given to $leave only, which tests it with `in`; what
\* the path helpers read under such a name is not part of the model.
SourcesFor(name) ==
    IF name = "$leave" THEN SourceTrees \cup UnsortedTrees
    ELSE {tr \in SourceTrees \cup UnsortedTrees :
            Range(tr.keys) \cap ObjectPrototypeNames = {}}

NextOp ==
    \E c \in OperationCalls : \E source \in SourcesFor(c[1]) : Operate(c[1], source, c[2])

SpecOp == Init /\ [][NextOp]_vars

-----------------------------------------------------------------------------
(* Vocabulary of the properties.                                           *)

\* The call was made with n values and has returned.
ReturnedFrom(n) == kind # "none" /\ Len(args) = n /\ err = ""

\* The containers the arguments reached when they were passed.
InputCells == UNION {argCells[i] : i \in 1..Len(argCells)}

\* Argument i is as it was when it was passed.
Intact(i) == Plain(heap, args[i]) = argTrees[i]

\* A name bound in the operation registry the prototype is built with.
IsOperationName(k) == k \in OperationNames /\ BuiltinOperations[k] # "undefined"

RECURSIVE NoOperationKeys(_)
\* No object of the tree has an operation name among its keys.
NoOperationKeys(tr) ==
    /\ \A i \in 1..Len(tr.keys) : ~IsOperationName(tr.keys[i])
    /\ \A i \in 1..Len(tr.kids) : NoOperationKeys(tr.kids[i])

\* The tree under key k of an object tree.
Kid(tr, k) == tr.kids[CHOOSE i \in 1..Len(tr.keys) : tr.keys[i] = k]

RECURSIVE LeafDiffers(_, _)
\* The change t2 holds, under its plain keys, a leaf that differs from t1's.
LeafDiffers(t1, t2) ==
    IF t1.t = "Object" /\ t2.t = "Object"
    THEN \E i \in 1..Len(t2.keys) :
            /\ ~IsOperationName(t2.keys[i])
            /\ \/ t2.keys[i] \notin Range(t1.keys)
               \/ LeafDiffers(Kid(t1, t2.keys[i]), t2.kids[i])
    ELSE t1 # t2

\* The paths an operation's params name: the keys of a params object, the
\* string elements of a params array.
ParamPaths(params) ==
    IF params.t = "Object" THEN Range(params.keys)
    ELSE IF params.t = "Array"
    THEN {params.kids[i].s : i \in {j \in 1..Len(params.kids) : params.kids[j].t = "String"}}
    ELSE {}

\* The change tr addresses key k: with a plain key, or with the path of one
\* of its operations.
Touches(tr, k) ==
    \/ k \in Range(tr.keys)
    \/ \E i \in 1..Len(tr.keys) :
          /\ IsOperationName(tr.keys[i])
          /\ \E path \in ParamPaths(tr.kids[i]) : PathSplit(path)[1] = k

-----------------------------------------------------------------------------
(* C1: patch(first, second) of a plain object first.                       *)

\* C1 (as stated): for every plain object first and every value second,
\* patch(first, second) returns first itself.
C1_PatchReturnsFirstForAnySecond ==
    (kind = KINDS.PATCH /\ ReturnedFrom(2) /\ argTrees[1].t = "Object")
        => result = args[1]

\* C1 (amended): for a plain object first and every second that is a plain
\* object or undefined, a patch that returns returns first itself, however
\* many such values follow.
C1_PatchReturnsFirstForObjects ==
    (/\ kind = KINDS.PATCH /\ Len(args) >= 2 /\ err = ""
     /\ argTrees[1].t = "Object"
     /\ \A i \in 2..Len(args) : argTrees[i].t \in {"Object", "Undefined"})
        => result = args[1]

\* A patch of an object with an object that changed it and returned it.
C1_Witness ==
    /\ kind = KINDS.PATCH /\ ReturnedFrom(2)
    /\ argTrees[1].t = "Object" /\ argTrees[2].t = "Object"
    /\ ~Intact(1)
    /\ result = args[1]

-----------------------------------------------------------------------------
(* C2: update(first, second) when nothing changes.                         *)

\* C2: when the object update built holds exactly the keys and the very
\* values of first, and first is as it was (second changed nothing, whether
\* or not it carried operations), update returns first itself.
C2_UpdateWithoutChangeReturnsFirst ==
    (/\ kind = KINDS.UPDATE /\ ReturnedFrom(2)
     /\ argTrees[1].t = "Object" /\ argTrees[2].t = "Object"
     /\ Intact(1)
     /\ IsRef(result) /\ heap[result.v] = heap[args[1].v])
        => result = args[1]

-----------------------------------------------------------------------------
(* C3: update(first, second) when a leaf differs.                          *)

\* C3: when a leaf of second differs from first, update returns an object
\* other than first, in which every container first holds under a key that
\* second does not address is the very container first holds.
C3_UpdateSharesUnchangedSubtrees ==
    (/\ kind = KINDS.UPDATE /\ ReturnedFrom(2)
     /\ argTrees[1].t = "Object" /\ argTrees[2].t = "Object"
     /\ LeafDiffers(argTrees[1], argTrees[2]))
        => /\ result # args[1]
           /\ \A i \in 1..Len(argTrees[1].keys) :
                 (/\ IsContainerTree(argTrees[1].kids[i])
                  /\ ~Touches(argTrees[2], argTrees[1].keys[i]))
                    => GetProp(heap, result, argTrees[1].keys[i])
                         = GetProp(heap, args[1], argTrees[1].keys[i])

-----------------------------------------------------------------------------
(* C4, C5, C6: what the calls leave of their inputs.                       *)

\* C4: update(first, second) modifies neither first nor a container
\* reachable from first, whatever second carries.
C4_UpdateLeavesFirstUnmodified ==
    (kind = KINDS.UPDATE /\ Len(args) = 2) => Intact(1)

\* C5: after merge(...values) every input, with every container reachable
\* from it, has the contents it had before the call.
C5_MergeLeavesInputsUnchanged ==
    kind = KINDS.MERGE => \A i \in 1..Len(args) : Intact(i)

\* C6: no container reachable from what merge(...values) returns is a
\* container reachable from an input, for one value or more.
C6_MergeReturnsNewContainers ==
    (kind = KINDS.MERGE /\ err = "") => Reach(heap, result) \cap InputCells = {}

-----------------------------------------------------------------------------
(* C7: operation keys in the result of Object x Object.                    *)

\* C7: for every kind and plain objects first and second, the object
\* returned has no own key that is the name of a registered operation.
C7_NoOperationKeyInResult ==
    (/\ ReturnedFrom(2)
     /\ argTrees[1].t = "Object" /\ argTrees[2].t = "Object")
        => \A k \in Range(ObjectKeys(heap, result)) : ~isOperation(k)

-----------------------------------------------------------------------------
(* C8: Array x Array.                                                      *)

\* Element i of the returned array is a deep clone of element i of second.
IsDeepClone(i) ==
    /\ Plain(heap, heap[result.v].vals[i]) = argTrees[2].kids[i]
    /\ Reach(heap, heap[result.v].vals[i]) \cap InputCells = {}

\* What C8 says of the array returned, with Cloned the elements that are
\* to be deep clones.
ArraysNeverMerged(Cloned) ==
    (/\ ReturnedFrom(2)
     /\ argTrees[1].t = "Array" /\ argTrees[2].t = "Array")
        => /\ kind # KINDS.MERGE => result = args[2]
           /\ kind = KINDS.MERGE =>
                /\ IsArray(heap, result)
                /\ result.v \notin InputCells
                /\ Len(heap[result.v].vals) = Len(argTrees[2].kids)
                /\ \A i \in Cloned : IsDeepClone(i)
           /\ Reach(heap, result) \cap argCells[1] = {}

-----------------------------------------------------------------------------
(* C9, C10: the registration API.                                          *)

\* The registries as call i of the log left them.
RegistriesAfter(i) ==
    IF i = Len(log) THEN <<handlers, operations>>
    ELSE <<log[i + 1].handlersBefore, log[i + 1].operationsBefore>>

\* The registries as call i of the log found them.
RegistriesBefore(i) == <<log[i].handlersBefore, log[i].operationsBefore>>

\* Call i + 1 hands back to the slot of call i what call i returned.
IsRoundTrip(i) ==
    /\ log[i].e = ""
    /\ log[i + 1].fn = log[i].fn
    /\ log[i + 1].a1 = log[i].a1
    /\ log[i + 1].a2 = log[i].a2
    /\ log[i + 1].cb = log[i].ret

\* C9: for every type pair and callable fn, addMerge(type1, type2, fn) and
\* then addMerge(type1, type2, previous), previous being what the first
\* call returned, leave the registries as they were before the first call;
\* the same for addOperation(name, fn) and addOperation(name, previous).
C9_RegistrationRoundTrip ==
    \A i \in 1..(Len(log) - 1) :
        IsRoundTrip(i) => RegistriesAfter(i + 1) = RegistriesBefore(i)

\* A string that is not empty; a function.
IsNonEmptyString(x) == x.t = "String" /\ x.s # ""
IsCallable(x) == x.t = "Function"

\* The arguments of a logged call are not what the API asks for.
IsInvalidCall(c) ==
    \/ ~IsNonEmptyString(c.a1)
    \/ (c.fn = "addMerge" /\ ~IsNonEmptyString(c.a2))
    \/ ~IsCallable(c.cb)

\* C10: addMerge with an empty or non-string type1 or type2 or a
\* non-callable callback, and addOperation with an empty or non-string name
\* or a non-callable callback, throw and leave both registries unchanged.
C10_InvalidRegistrationFails ==
    \A i \in 1..Len(log) :
        IsInvalidCall(log[i])
            => /\ log[i].e # ""
               /\ RegistriesAfter(i) = RegistriesBefore(i)

\* An invalid call of each function was refused after a registration had
\* changed the registries.
C10_Witness ==
    /\ Len(log) = 2
    /\ log[1].e = ""
    /\ <<handlers, operations>> # <<BuiltinHandlers, BuiltinOperations>>
    /\ IsInvalidCall(log[2])
    /\ log[2].e # ""

-----------------------------------------------------------------------------
(* C11: $push.                                                             *)

RECURSIVE TreeGet(_, _)
\* The tree at a path of a tree, TUndef where the path leads nowhere.
TreeGet(tr, segs) ==
    IF segs = <<>> THEN tr
    ELSE IF tr.t = "Object" /\ Head(segs) \in Range(tr.keys)
    THEN TreeGet(Kid(tr, Head(segs)), Tail(segs))
    ELSE TUndef

\* The source of a direct call, as it is now.
SourceNow == Plain(heap, args[1])

\* C11: for every path -> value entry of the $push params whose target at
\* the path is an array of length n, after the operation the array at the
\* path holds the n previous elements in their order and then value, as one
\* element even when value is an array.
C11_PushAppendsOneElement ==
    (kind = "$push" /\ err = "") =>
        \A i \in 1..Len(argTrees[2].keys) :
            LET path   == PathSplit(argTrees[2].keys[i])
                before == TreeGet(argTrees[1], path)
                after  == TreeGet(SourceNow, path)
            IN before.t = "Array"
                 => /\ after.t = "Array"
                    /\ after.kids = Append(before.kids, argTrees[2].kids[i])

\* An array value was pushed onto a non-empty array at a nested path.
C11_Witness ==
    /\ kind = "$push" /\ err = ""
    /\ argTrees[2].keys = <<"a.x">>
    /\ argTrees[2].kids[1].t = "Array"
    /\ TreeGet(argTrees[1], <<"a", "x">>).t = "Array"
    /\ Len(TreeGet(SourceNow, <<"a", "x">>).kids) = 2
    /\ TreeGet(SourceNow, <<"a", "x">>).kids[2] = argTrees[2].kids[1]

-----------------------------------------------------------------------------
(* C12: $leave.                                                            *)

\* The path strings of a params array.
PathsOf(params) == [i \in 1..Len(params.kids) |-> params.kids[i].s]

\* The first segments of the paths, and the second segments of those paths
\* whose first segment is k.
LeadingSegments(paths) == {PathSplit(paths[i])[1] : i \in 1..Len(paths)}
SecondSegments(paths, k) ==
    {PathSplit(paths[i])[2] :
        i \in {j \in 1..Len(paths) : PathSplit(paths[j])[1] = k /\ Len(PathSplit(paths[j])) >= 2}}

RECURSIVE KeysIn(_, _)
\* The keys of a sequence that are in a set, in their order.
KeysIn(keys, S) ==
    IF keys = <<>> THEN <<>>
    ELSE (IF Head(keys) \in S THEN <<Head(keys)>> ELSE <<>>) \o KeysIn(Tail(keys), S)

\* Tree after is tree before pruned to the names of S: an object keeps the
\* keys in S with their values, an array the elements whose index is in S.
PrunedTo(before, after, S) ==
    IF before.t = "Object"
    THEN /\ after.t = "Object"
         /\ after.keys = KeysIn(before.keys, S)
         /\ \A i \in 1..Len(after.keys) : after.kids[i] = Kid(before, after.keys[i])
    ELSE IF before.t = "Array"
    THEN /\ after.t = "Array"
         /\ \E keep \in SUBSET (1..Len(before.kids)) :
               /\ keep = {i \in 1..Len(before.kids) : ToString(i - 1) \in S}
               /\ Len(after.kids) = Cardinality(keep)
               /\ \A i \in keep :
                     after.kids[Cardinality({j \in keep : j <= i})] = before.kids[i]
    ELSE after = before

\* C12: after $leave with path list P is applied to a plain object, its own
\* keys are exactly those of its previous keys that are the leading segment
\* of a path in P, in their order; a kept property whose paths in P carry a
\* second segment is pruned in the same way to those second-segment names,
\* and is otherwise as it was; segments beyond the second are ignored.
C12_LeaveKeepsListed ==
    (kind = "$leave" /\ err = "") =>
        LET P      == PathsOf(argTrees[2])
            before == argTrees[1]
            after  == SourceNow
        IN /\ after.t = "Object"
           /\ after.keys = KeysIn(before.keys, LeadingSegments(P))
           /\ \A i \in 1..Len(after.keys) :
                 LET k == after.keys[i] IN
                 IF SecondSegments(P, k) # {}
                 THEN PrunedTo(Kid(before, k), after.kids[i], SecondSegments(P, k))
                 ELSE after.kids[i] = Kid(before, k)

-----------------------------------------------------------------------------
(* C13: $default.                                                          *)

RECURSIVE WithDefaults(_, _)
\* Tree tr with the defaults of tree d at every depth, as the README shows
\* them: what tr lacks is added after its own keys, what it has is kept, and
\* an object it has under a key is completed from the object d gives there.
WithDefaults(tr, d) ==
    IF tr.t = "Undefined" THEN d
    ELSE IF tr.t = "Object" /\ d.t = "Object"
    THEN LET added == KeysIn(d.keys, Range(d.keys) \ Range(tr.keys))
             keys  == tr.keys \o added
         IN TObj(keys,
                 [i \in 1..Len(keys) |->
                    IF keys[i] \in Range(tr.keys)
                    THEN IF keys[i] \in Range(d.keys)
                         THEN WithDefaults(Kid(tr, keys[i]), Kid(d, keys[i]))
                         ELSE Kid(tr, keys[i])
                    ELSE Kid(d, keys[i])])
    ELSE tr

\* The keys of a params object that are single-segment paths.
PlainPaths(params) == {k \in Range(params.keys) : Len(PathSplit(k)) = 1}

\* C13: $default sets defaults at every depth: when the params give a
\* nested object for a key whose current value is an object, each nested
\* property the current value lacks is added with its default and each one
\* it has keeps its value.
C13_DefaultAtEveryDepth ==
    (kind = "$default" /\ err = "") =>
        \A k \in PlainPaths(argTrees[2]) :
            TreeGet(SourceNow, <<k>>)
                = WithDefaults(TreeGet(argTrees[1], <<k>>), Kid(argTrees[2], k))

-----------------------------------------------------------------------------
(* C14: $propSortOrder.                                                    *)

RECURSIVE HasValue(_)
\* The tree holds a value that is not undefined.
HasValue(tr) ==
    IF tr.t = "Object" THEN \E i \in 1..Len(tr.kids) : HasValue(tr.kids[i])
    ELSE tr.t # "Undefined"

RECURSIVE NamedKeys(_, _, _)
\* The keys of tr that lead a path of the list with a defined value, in the
\* order the list first names them.
NamedKeys(tr, paths, acc) ==
    IF paths = <<>> THEN acc
    ELSE NamedKeys(tr, Tail(paths),
                   IF TreeGet(tr, Head(paths)).t # "Undefined" /\ Head(paths)[1] \notin Range(acc)
                   THEN Append(acc, Head(paths)[1])
                   ELSE acc)

RECURSIVE PathsUnder(_, _)
\* The paths of the list that go below key k, without their first segment.
PathsUnder(paths, k) ==
    IF paths = <<>> THEN <<>>
    ELSE (IF Head(paths)[1] = k /\ Len(Head(paths)) > 1 THEN <<Tail(Head(paths))>> ELSE <<>>)
         \o PathsUnder(Tail(paths), k)

RECURSIVE Sorted(_, _)
\* Object tr in the order the path list asks for: the named keys with a
\* defined value first, in the order of the list, then the other keys that
\* hold a value, in their previous order; an object under a key is ordered
\* by the paths that go below the key, unless the list names the key itself.
Sorted(tr, paths) ==
    IF tr.t # "Object" THEN tr
    ELSE LET named == NamedKeys(tr, paths, <<>>)
             rest  == KeysIn(tr.keys, {k \in Range(tr.keys) \ Range(named) : HasValue(Kid(tr, k))})
             keys  == named \o rest
         IN TObj(keys,
                 [i \in 1..Len(keys) |->
                    IF <<keys[i]>> \in Range(paths) THEN Kid(tr, keys[i])
                    ELSE Sorted(Kid(tr, keys[i]), PathsUnder(paths, keys[i]))])

\* The paths of a params array, in segments.
SegmentsOf(params) == [i \in 1..Len(params.kids) |-> PathSplit(params.kids[i].s)]

-----------------------------------------------------------------------------
(* C15: merge(x, x).                                                       *)

-----------------------------------------------------------------------------
(* C16: when the operations of a change run.                               *)

Entries(tr) == [i \in 1..Len(tr.keys) |-> <<tr.keys[i], tr.kids[i]>>]
IsOperationEntry(en) == IsOperationName(en[1])
IsPlainEntry(en) == ~IsOperationName(en[1])
PlainEntries(tr) == SelectSeq(Entries(tr), IsPlainEntry)
OperationEntries(tr) == SelectSeq(Entries(tr), IsOperationEntry)

\* What a call leaves: its error, the value it returns, and first.
Outcome(e, h, res, first) ==
    [e |-> e, res |-> IF e # "" THEN TUndef ELSE Plain(h, res), first |-> Plain(h, first)]

\* The outcome of kind(ft, st) on values of their own.
OutcomeOf(knd, ft, st) ==
    LET a == Alloc(<<>>, ft)
        b == Alloc(a.h, st)
        r == prepareMerge(b.h, a.v, b.v, knd)
    IN Outcome(r.e, r.h, r.v, a.v)

RECURSIVE InOrder(_, _, _, _)
\* mc.operation(target, name, params) for each entry in turn, up to the
\* first that throws; changed tells whether one of them returned true.
InOrder(h, target, es, changed) ==
    IF es = <<>> THEN [h |-> h, e |-> "", changed |-> changed]
    ELSE LET p == Alloc(h, Head(es)[2])
             r == operation(p.h, target, Head(es)[1], p.v)
         IN IF r.e # "" THEN [h |-> r.h, e |-> r.e, changed |-> changed]
            ELSE InOrder(r.h, target, Tail(es), changed \/ r.v)

\* The outcome of merging the plain keys of st alone, then running the
\* operations of st on what that built, one after the other in key order.
\* An update that found no plain key to change has built a copy of first.
PlainKeysThenOperations(knd, ft, st) ==
    LET a  == Alloc(<<>>, ft)
        b  == Alloc(a.h, FromEntries(PlainEntries(st)))
        r0 == prepareMerge(b.h, a.v, b.v, knd)
        same == KINDS.UPDATE = knd /\ r0.v = a.v
        built == IF same THEN New(r0.h, r0.h[a.v.v]) ELSE [h |-> r0.h, v |-> r0.v]
        r1 == InOrder(built.h, built.v, OperationEntries(st), FALSE)
    IN IF r0.e # "" THEN Outcome(r0.e, r0.h, Undefined, a.v)
       ELSE Outcome(r1.e, r1.h, IF same /\ ~r1.changed THEN a.v ELSE built.v, a.v)

\* The call was kind(first, second) on two objects, no operation key of
\* second being a key of first.
ObjectObjectCall ==
    /\ kind # "none" /\ Len(args) = 2
    /\ argTrees[1].t = "Object" /\ argTrees[2].t = "Object"
    /\ \A i \in 1..Len(argTrees[1].keys) : ~IsOperationName(argTrees[1].keys[i])

\* C16: in an Object x Object merge the operations of second run after every
\* plain key of first and second is merged, in the order of their keys in
\* second: the call leaves what merging the plain keys alone and then
\* running the operations one by one leaves, and leaves the same wherever
\* the operation keys stand among the plain keys of second.
C16_OperationsRunLastInKeyOrder ==
    ObjectObjectCall =>
        LET left == Outcome(err, heap, result, args[1])
        IN /\ left = PlainKeysThenOperations(kind, argTrees[1], argTrees[2])
           /\ \A es \in Interleavings(PlainEntries(argTrees[2]), OperationEntries(argTrees[2])) :
                 OutcomeOf(kind, argTrees[1], FromEntries(es)) = left

\* second lists $push, then a plain key, then $set: the array pushed onto is
\* the one the plain key brought, and $set replaced it afterwards.
C16_Witness ==
    /\ ObjectObjectCall /\ kind = KINDS.PATCH /\ err = ""
    /\ argTrees[1] = TObj(<<>>, <<>>)
    /\ argTrees[2].keys = <<"$push", "a", "$set">>
    /\ Plain(heap, result) = TObj(<<"a">>, <<TArr(<<>>)>>)

-----------------------------------------------------------------------------
(* C17: which handler the dispatcher invokes.                              *)

Registered(t1, t2) == handlers[<<t1, t2>>] # "undefined"

\* The first registered of merge{T1}{T2}, merge{T1}Any, mergeAny{T2},
\* mergeAnyAny, or "undefined" when none of them is.
FirstRegistered(t1, t2) ==
    IF Registered(t1, t2) THEN handlers[<<t1, t2>>]
    ELSE IF Registered(t1, "Any") THEN handlers[<<t1, "Any">>]
    ELSE IF Registered("Any", t2) THEN handlers[<<"Any", t2>>]
    ELSE IF Registered("Any", "Any") THEN handlers[<<"Any", "Any">>]
    ELSE "undefined"

\* The outcome of handler(first, second, kind) on values of their own.
HandlerOutcome(handler, knd, ft, st) ==
    LET a == Alloc(<<>>, ft)
        b == Alloc(a.h, st)
        r == Invoke(handler, b.h, a.v, b.v, knd)
    IN Outcome(r.e, r.h, r.v, a.v)

\* C17: for every content of the handler registry a call of two values ends
\* as one call of the first registered handler among merge{T1}{T2},
\* merge{T1}Any, mergeAny{T2}, mergeAnyAny on (first, second, kind) ends (a
\* callback that returns its first argument yields first, one that returns
\* its second yields second); with none registered the call throws
\* "Unsupported merge types." and nothing was built or written.
C17_FirstRegisteredHandlerRuns ==
    (kind # "none" /\ Len(args) = 2) =>
        LET handler == FirstRegistered(argTrees[1].t, argTrees[2].t)
        IN IF handler = "undefined"
           THEN /\ err = "Unsupported merge types."
                /\ result = Undefined
                /\ Intact(1) /\ Intact(2)
                /\ Len(heap) = Cardinality(InputCells)
           ELSE /\ Outcome(err, heap, result, args[1])
                     = HandlerOutcome(handler, kind, argTrees[1], argTrees[2])
                /\ handler = "fnA" => result = args[1]
                /\ handler = "fnB" => result = args[2]

\* No handler is registered for Array x Array, one of the caller's is for
\* Array x Any and another for Any x Array: the first of the two ran.
C17_Witness ==
    /\ ReturnedFrom(2)
    /\ argTrees[1].t = "Array" /\ argTrees[2].t = "Array"
    /\ ~Registered("Array", "Array")
    /\ handlers[<<"Array", "Any">>] = "fnA" /\ handlers[<<"Any", "Array">>] = "fnB"
    /\ result = args[1] /\ result # args[2]

-----------------------------------------------------------------------------
(* C18: an operation that throws.                                          *)

\* second with its plain keys and the first n of its operations.
UpToOperation(st, n) ==
    FromEntries(PlainEntries(st) \o SubSeq(OperationEntries(st), 1, n))

\* Operation n of second is the one that throws: the plain keys and the
\* operations before it go through, and with it the change does not.
FailsAtOperation(n) ==
    /\ n \in 1..Len(OperationEntries(argTrees[2]))
    /\ PlainKeysThenOperations(kind, argTrees[1], UpToOperation(argTrees[2], n - 1)).e = ""
    /\ PlainKeysThenOperations(kind, argTrees[1], UpToOperation(argTrees[2], n)).e # ""

\* C18: when an operation of the change throws, the call throws that error
\* and returns no value, and nothing is rolled back: under patch first is
\* left as the plain keys of second and the operations before the failing
\* one left it.
C18_FailingOperationAbortsWithoutRollback ==
    ObjectObjectCall =>
        /\ err # "" => result = Undefined
        /\ \A n \in 1..Len(argTrees[2].keys) :
              FailsAtOperation(n) =>
                 /\ err = PlainKeysThenOperations(kind, argTrees[1],
                                                  UpToOperation(argTrees[2], n)).e
                 /\ result = Undefined
                 /\ KINDS.PATCH = kind =>
                       Plain(heap, args[1])
                         = PlainKeysThenOperations(kind, argTrees[1],
                                                   UpToOperation(argTrees[2], n - 1)).first

\* patch({a: {x: 1}}, {b: 1, $set: {b: MaxNum}, $push: {a: 1}}) threw at
\* $push, and first has the key b as $set left it.
C18_Witness ==
    /\ ObjectObjectCall /\ KINDS.PATCH = kind
    /\ err = "Cannot push onto non-array value." /\ result = Undefined
    /\ argTrees[1] = TObj(<<"a">>, <<TObj(<<"x">>, <<TNum(1)>>)>>)
    /\ argTrees[2].keys = <<"b", "$set", "$push">>
    /\ FailsAtOperation(2)
    /\ Plain(heap, args[1])
         = TObj(<<"a", "b">>, <<TObj(<<"x">>, <<TNum(1)>>), TNum(MaxNum)>>)

-----------------------------------------------------------------------------
(* C19: Undefined x Object under patch and update.                         *)

\* The own keys the value at argument i has now.
KeysNow(i) == LET tr == Plain(heap, args[i]) IN {tr.keys[j] : j \in 1..Len(tr.keys)}

\* C19: after patch(undefined, second) or update(undefined, second) on a
\* plain object second, second still has every own key it was passed with,
\* its operation keys included.
C19_SecondKeepsItsKeys ==
    (/\ kind \in {KINDS.PATCH, KINDS.UPDATE} /\ ReturnedFrom(2)
     /\ argTrees[1] = TUndef /\ argTrees[2].t = "Object")
        => \A j \in 1..Len(argTrees[2].keys) : argTrees[2].keys[j] \in KeysNow(2)

=============================================================================
